---- MODULE Spec2Model ----
(***************************************************************************)
(* Trivia API (backend/flaskr/__init__.py): the question store, the        *)
(* request handlers of create_app and the pagination helper.               *)
(***************************************************************************)
EXTENDS Integers, Sequences, FiniteSets, TLC

VARIABLES
    questions,         \* the Question table, in the order Question.query.all() lists it
    nextId,            \* the next id the table's sequence assigns on insert
    op,                \* the handler that served the last request
    req,               \* the inputs of the last request
    status,            \* the HTTP status of the last response
    resp,              \* the JSON body of the last response
    selection,         \* the handler's query result (selection / current_questions)
    session_category,  \* quiz session: the caller's fixed quiz_category id
    session_previous,  \* quiz session: the caller's previous_questions list
    session_draws,     \* quiz session: number of questions drawn so far
    session_pc         \* quiz session: "active" or "exhausted"

vars == <<questions, nextId, op, req, status, resp, selection,
          session_category, session_previous, session_draws, session_pc>>

----------------------------------------------------------------------------
(* Bounds of the model *)

\* ids 1..MaxId are assigned by create_question; the store never holds more rows
MaxId == 2
\* largest collection handed to paginate_questions in PageSpec
MaxItems == 21
\* PageSpec asks for pages -MaxPage .. MaxPage
MaxPage == 3
\* largest store of a quiz session in SessionSpec
MaxSessionQuestions == 3

(* Program constants *)

QUESTIONS_PER_PAGE == 10

----------------------------------------------------------------------------
(* Python / JSON values, tagged so that values of different types compare *)

PyNone == [t |-> "none"]
PyStr(s) == [t |-> "str", v |-> s]
PyInt(i) == [t |-> "int", v |-> i]
PyDict(d) == [t |-> "dict", v |-> d]
PyList(l) == [t |-> "list", v |-> l]
\* marks a key the JSON object / query string does not carry
Absent == [t |-> "absent"]

EmptyObject == [k \in {} |-> PyNone]
\* a JSON object / args mapping holding the keys of pairs that are not Absent
Object(pairs) == [k \in {x \in DOMAIN pairs : pairs[x].t # "absent"} |-> pairs[k]]
\* dict.get(key, default)
Get(body, key, default) == IF key \in DOMAIN body THEN body[key] ELSE default

Min(a, b) == IF a < b THEN a ELSE b
Max(a, b) == IF a > b THEN a ELSE b

\* the elements of a sequence
Range(s) == {s[i] : i \in DOMAIN s}

\* Python's s[start:end] for a list s, negative indices counted from the end
PySlice(s, start, end) ==
    LET n  == Len(s)
        lo == IF start < 0 THEN Max(start + n, 0) ELSE Min(start, n)
        hi == IF end < 0 THEN Max(end + n, 0) ELSE Min(end, n)
    IN  IF lo < hi THEN SubSeq(s, lo + 1, hi) ELSE <<>>

----------------------------------------------------------------------------
(* Question rows and their JSON form *)

\* Question.format(): the row as a JSON object
format(q) ==
    [id |-> q.id, question |-> q.question, answer |-> q.answer,
     category |-> q.category, difficulty |-> q.difficulty]

\* request.args.get('page', 1, type=int): 1 when absent or not an integer
PageArg(args) ==
    LET raw == Get(args, "page", Absent)
    IN  IF raw.t = "int" THEN raw.v ELSE 1

\* paginate_questions with the window starting one page late
paginate_questions_OffByOne(args, sel) ==
    LET page  == PageArg(args)
        start == page * QUESTIONS_PER_PAGE
        end   == start + QUESTIONS_PER_PAGE
        formatted == [i \in 1..Len(sel) |-> format(sel[i])]
    IN  PySlice(formatted, start, end)

paginate_questions(args, sel) ==
    LET page  == PageArg(args)
        start == (page - 1) * QUESTIONS_PER_PAGE
        end   == start + QUESTIONS_PER_PAGE
        formatted == [i \in 1..Len(sel) |-> format(sel[i])]
    IN  PySlice(formatted, start, end)

----------------------------------------------------------------------------
(* Text: a string is a sequence of one-character strings *)

UpperLetters == <<"A","B","C","D","E","F","G","H","I","J","K","L","M",
                  "N","O","P","Q","R","S","T","U","V","W","X","Y","Z">>
LowerLetters == <<"a","b","c","d","e","f","g","h","i","j","k","l","m",
                  "n","o","p","q","r","s","t","u","v","w","x","y","z">>

LowerChar(c) ==
    IF \E i \in DOMAIN UpperLetters : UpperLetters[i] = c
    THEN LowerLetters[CHOOSE i \in DOMAIN UpperLetters : UpperLetters[i] = c]
    ELSE c
Lower(s) == [i \in 1..Len(s) |-> LowerChar(s[i])]

\* SQL LIKE: % matches any run of characters, _ matches one character
RECURSIVE LikeMatch(_, _)
LikeMatch(pattern, text) ==
    IF pattern = <<>> THEN text = <<>>
    ELSE IF Head(pattern) = "%"
         THEN LikeMatch(Tail(pattern), text)
              \/ (text # <<>> /\ LikeMatch(pattern, Tail(text)))
    ELSE IF text = <<>> THEN FALSE
    ELSE (Head(pattern) = "_" \/ Head(pattern) = Head(text))
         /\ LikeMatch(Tail(pattern), Tail(text))

\* column.ilike(pattern): LIKE on the lower-cased operands
ilike(text, pattern) == LikeMatch(Lower(pattern), Lower(text))

\* f'{search_term}': str() of the value; str(None) is 'None'
FString(value) == IF value.t = "none" THEN <<"N", "o", "n", "e">> ELSE value.v

----------------------------------------------------------------------------
(* The Category table (this module never writes it) *)

Categories == <<[id |-> 1, type |-> "Science"], [id |-> 2, type |-> "Art"]>>

\* {category.id: category.type for category in categories}
category_dict ==
    [c \in {Categories[i].id : i \in DOMAIN Categories} |->
        (CHOOSE r \in Range(Categories) : r.id = c).type]

----------------------------------------------------------------------------
(* Responses *)

ErrorMessage(code) ==
    CASE code = 400 -> "bad request"
      [] code = 404 -> "resource not found"
      [] code = 405 -> "method not allowed"
      [] code = 422 -> "unprocessable"
      [] OTHER      -> "internal server error"

\* abort(code), as rendered by the registered error handler
ErrorBody(code) == [success |-> FALSE, error |-> code, message |-> ErrorMessage(code)]

\* the quiz session variables, which no handler touches
SessionIdle ==
    UNCHANGED <<session_category, session_previous, session_draws, session_pc>>

----------------------------------------------------------------------------
(* Inputs of the requests *)

QuestionTexts == {<<"W", "h", "o">>, <<"n", "o", "N", "e">>}
AnswerTexts == {<<"a">>}
Difficulties == {1}
CategoryIds == {1, 2}

\* request.args: page absent, numeric, or not a number
ArgsSet ==
    {Object([page |-> p]) : p \in {Absent, PyInt(1), PyInt(2), PyStr(<<"x">>)}}
SearchArgsSet == {Object([page |-> p]) : p \in {Absent, PyInt(2)}}

CreateKeys == {"question", "answer", "difficulty", "category"}

\* bodies carrying four usable fields
ValidCreateBodies ==
    {[question |-> PyStr(q), answer |-> PyStr(a),
      difficulty |-> PyInt(d), category |-> PyInt(c)] :
        q \in QuestionTexts, a \in AnswerTexts, d \in Difficulties, c \in CategoryIds}

\* a usable body with one field, or all four, left out or sent as ''
BrokenCreateBodies ==
    LET base == [question |-> PyStr(<<"W", "h", "o">>), answer |-> PyStr(<<"a">>),
                 difficulty |-> PyInt(1), category |-> PyInt(1)]
    IN  {Object([k \in CreateKeys |-> IF k \in broken THEN how ELSE base[k]]) :
            broken \in {{k} : k \in CreateKeys} \cup {CreateKeys},
            how \in {Absent, PyStr(<<>>)}}

CreateBodies == ValidCreateBodies \cup BrokenCreateBodies

SearchBodies ==
    {Object([searchTerm |-> term]) :
        term \in {Absent, PyNone, PyStr(<<>>), PyStr(<<"W", "H", "O">>),
                  PyStr(<<"h", "_">>)}}

\* the ids of a set as a list, ascending
RECURSIVE SortedList(_)
SortedList(ids) ==
    IF ids = {} THEN <<>>
    ELSE LET least == CHOOSE i \in ids : \A j \in ids : i <= j
         IN  <<least>> \o SortedList(ids \ {least})

\* the lists of ids a client may send as previous_questions
IdLists == {SortedList(ids) : ids \in SUBSET (1..MaxId)}

QuizBodies ==
    {Object([quiz_category |-> c, previous_questions |-> p]) :
        c \in {Absent, PyNone} \cup {PyDict([id |-> PyInt(i)]) : i \in 0..3},
        p \in {Absent, PyNone} \cup {PyList(l) : l \in IdLists}}

----------------------------------------------------------------------------
(* GET /categories *)

get_categories ==
    /\ op' = "categories"
    /\ req' = EmptyObject
    /\ selection' = <<>>
    /\ status' = 200
    /\ resp' = [success |-> TRUE, categories |-> category_dict,
                total_categories |-> Len(Categories)]
    /\ UNCHANGED <<questions, nextId>>
    /\ SessionIdle

(* GET /questions *)

get_questions ==
    \E args \in ArgsSet :
        LET current_questions == paginate_questions(args, questions)
        IN  /\ op' = "questions"
            /\ req' = [args |-> args]
            /\ selection' = questions
            /\ IF Len(current_questions) = 0
               THEN /\ status' = 404
                    /\ resp' = ErrorBody(404)
               ELSE /\ status' = 200
                    /\ resp' = [success |-> TRUE, questions |-> current_questions,
                                total_questions |-> Len(questions),
                                categories |-> category_dict,
                                current_category |-> PyNone]
            /\ UNCHANGED <<questions, nextId>>
            /\ SessionIdle

(* DELETE /questions/<int:question_id> *)

\* Question.query.filter(Question.id == question_id)
QuestionsWithId(qs, question_id) ==
    LET Test(q) == q.id = question_id IN SelectSeq(qs, Test)

\* question.delete()
DeleteRow(qs, question_id) ==
    LET Test(q) == q.id # question_id IN SelectSeq(qs, Test)

\* The status the try block of delete_question ends with: abort(404) raises
\* inside the try, and the bare except turns every exception into abort(422).
delete_status(found) ==
    LET raised == IF found THEN 0 ELSE 404
    IN  IF raised # 0 THEN 422 ELSE 200

delete_question ==
    \E question_id \in 1..MaxId :
        LET found == QuestionsWithId(questions, question_id) # <<>>
            code  == delete_status(found)
            after == IF found THEN DeleteRow(questions, question_id) ELSE questions
        IN  /\ op' = "delete"
            /\ req' = [question_id |-> question_id]
            /\ selection' = <<>>
            /\ questions' = after
            /\ status' = code
            /\ resp' = IF code = 200
                       THEN [success |-> TRUE, deleted |-> question_id,
                             total_questions |-> Len(after)]
                       ELSE ErrorBody(code)
            /\ UNCHANGED nextId
            /\ SessionIdle

(* POST /questions *)

\* value is '' : the empty string is one shared object in CPython, so the
\* identity test is the equality test
IsEmpty(value) == value.t = "str" /\ value.v = <<>>

\* the four body.get(..., '') of create_question
CreateFields(body) ==
    [question   |-> Get(body, "question", PyStr(<<>>)),
     answer     |-> Get(body, "answer", PyStr(<<>>)),
     difficulty |-> Get(body, "difficulty", PyStr(<<>>)),
     category   |-> Get(body, "category", PyStr(<<>>))]

\* create_rejects refusing only a body whose four fields are all unusable
create_rejects_All(body) ==
    LET f == CreateFields(body)
    IN  IsEmpty(f.question) /\ IsEmpty(f.answer)
        /\ IsEmpty(f.difficulty) /\ IsEmpty(f.category)

create_rejects(body) ==
    LET f == CreateFields(body)
    IN  IsEmpty(f.question) \/ IsEmpty(f.answer)
        \/ IsEmpty(f.difficulty) \/ IsEmpty(f.category)

\* Question(question=..., answer=..., difficulty=..., category=...) with the id
\* question.insert() assigns
NewQuestion(id, body) ==
    LET f == CreateFields(body)
    IN  [id |-> id, question |-> f.question.v, answer |-> f.answer.v,
         category |-> f.category.v, difficulty |-> f.difficulty.v]

create_question ==
    \E body \in CreateBodies :
        /\ op' = "create"
        /\ req' = [body |-> body]
        /\ selection' = <<>>
        /\ IF create_rejects(body)
           THEN /\ status' = 422
                /\ resp' = ErrorBody(422)
                /\ UNCHANGED <<questions, nextId>>
           ELSE /\ nextId <= MaxId
                /\ questions' = Append(questions, NewQuestion(nextId, body))
                /\ nextId' = nextId + 1
                /\ status' = 201
                /\ resp' = [success |-> TRUE, created |-> nextId,
                            total_questions |-> Len(questions) + 1]
        /\ SessionIdle

(* POST /questions/results *)

\* search_selection answering a blank term with no match
search_selection_BlankMatchesNothing(qs, search_term) ==
    LET pattern == <<"%">> \o FString(search_term) \o <<"%">>
        Test(q) == ilike(q.question, pattern)
    IN  IF search_term.t = "none" \/ search_term.v = <<>>
        THEN <<>>
        ELSE SelectSeq(qs, Test)

\* Question.query.filter(Question.question.ilike(f'%{search_term}%')).all()
search_selection(qs, search_term) ==
    LET pattern == <<"%">> \o FString(search_term) \o <<"%">>
        Test(q) == ilike(q.question, pattern)
    IN  SelectSeq(qs, Test)

search_questions ==
    \E body \in SearchBodies, args \in SearchArgsSet :
        LET search_term == Get(body, "searchTerm", PyNone)
            found == search_selection(questions, search_term)
        IN  /\ op' = "search"
            /\ req' = [body |-> body, args |-> args]
            /\ selection' = found
            /\ status' = 200
            /\ resp' = [success |-> TRUE,
                        questions |-> paginate_questions(args, found),
                        total_questions |-> Len(found)]
            /\ UNCHANGED <<questions, nextId>>
            /\ SessionIdle

(* GET /categories/<int:category_id>/questions *)

\* Category.query.filter(Category.id == category_id)
CategoriesWithId(category_id) ==
    LET Test(c) == c.id = category_id IN SelectSeq(Categories, Test)

\* category_selection comparing the question's id, not its category
category_selection_ById(qs, category_id) ==
    LET Test(q) == q.id = category_id IN SelectSeq(qs, Test)

\* Question.query.filter(Question.category == category.id).all()
category_selection(qs, category_id) ==
    LET Test(q) == q.category = category_id IN SelectSeq(qs, Test)

get_category_questions ==
    \E category_id \in 0..3, args \in SearchArgsSet :
        LET category == CategoriesWithId(category_id)
        IN  /\ op' = "category"
            /\ req' = [category_id |-> category_id, args |-> args]
            /\ IF category = <<>>
               THEN /\ status' = 404
                    /\ resp' = ErrorBody(404)
                    /\ selection' = <<>>
               ELSE LET found == category_selection(questions, category[1].id)
                    IN  /\ status' = 200
                        /\ selection' = found
                        /\ resp' = [success |-> TRUE,
                                    questions |-> paginate_questions(args, found),
                                    total_questions |-> Len(found),
                                    current_category |-> category[1].type]
            /\ UNCHANGED <<questions, nextId>>
            /\ SessionIdle

(* POST /quizzes *)

\* (quiz_category is None) or (previous_questions is None)
quiz_rejects(quiz_category, previous_questions) ==
    quiz_category.t = "none" \/ previous_questions.t = "none"

\* current_questions whose all-categories branch forgets notin_
current_questions_KeepsPrevious(qs, quiz_category, previous_questions) ==
    LET id == quiz_category.v.id
        NotPrevious(q) == q.id \notin Range(previous_questions.v)
        InCategory(q) == q.category = id.v /\ NotPrevious(q)
    IN  IF id.t = "int" /\ id.v = 0
        THEN qs
        ELSE SelectSeq(qs, InCategory)

\* current_questions whose test for the sentinel 0 never holds
current_questions_NoSentinel(qs, quiz_category, previous_questions) ==
    LET id == quiz_category.v.id
        NotPrevious(q) == q.id \notin Range(previous_questions.v)
        InCategory(q) == q.category = id.v /\ NotPrevious(q)
    IN  SelectSeq(qs, InCategory)

\* the query of get_quiz_questions; quiz_category['id'] is 0 holds for the
\* integer 0 (CPython shares the small integers)
current_questions(qs, quiz_category, previous_questions) ==
    LET id == quiz_category.v.id
        NotPrevious(q) == q.id \notin Range(previous_questions.v)
        InCategory(q) == q.category = id.v /\ NotPrevious(q)
    IN  IF id.t = "int" /\ id.v = 0
        THEN SelectSeq(qs, NotPrevious)
        ELSE SelectSeq(qs, InCategory)

\* quiz_pick giving up while one question is left
quiz_pick_OffByOne(current) ==
    IF Len(current) > 1
    THEN {PyDict(format(current[i])) : i \in 1..Len(current)}
    ELSE {PyNone}

\* random.choice(current_questions).format(), or None
quiz_pick(current) ==
    IF Len(current) > 0
    THEN {PyDict(format(current[i])) : i \in 1..Len(current)}
    ELSE {PyNone}

\* a refusal sent as 400 Bad Request
quiz_abort_BadRequest == [status |-> 400, resp |-> ErrorBody(400), selection |-> <<>>]

\* abort(422) of get_quiz_questions
quiz_abort == [status |-> 422, resp |-> ErrorBody(422), selection |-> <<>>]

\* every response get_quiz_questions can give to body over the store qs
get_quiz_outcomes(qs, body) ==
    LET quiz_category == Get(body, "quiz_category", PyNone)
        previous_questions == Get(body, "previous_questions", PyNone)
    IN  IF quiz_rejects(quiz_category, previous_questions)
        THEN {quiz_abort}
        ELSE LET current == current_questions(qs, quiz_category, previous_questions)
             IN  {[status |-> 200, resp |-> [success |-> TRUE, question |-> question],
                   selection |-> current] : question \in quiz_pick(current)}

get_quiz_questions ==
    \E body \in QuizBodies :
        \E out \in get_quiz_outcomes(questions, body) :
            /\ op' = "quiz"
            /\ req' = [body |-> body]
            /\ status' = out.status
            /\ resp' = out.resp
            /\ selection' = out.selection
            /\ UNCHANGED <<questions, nextId>>
            /\ SessionIdle

----------------------------------------------------------------------------
(* The application: an empty store after setup, then any request *)

Init ==
    /\ questions = <<>>
    /\ nextId = 1
    /\ op = "init"
    /\ req = EmptyObject
    /\ status = 0
    /\ resp = EmptyObject
    /\ selection = <<>>
    /\ session_category = 0
    /\ session_previous = <<>>
    /\ session_draws = 0
    /\ session_pc = "idle"

Next ==
    \/ get_categories
    \/ get_questions
    \/ delete_question
    \/ create_question
    \/ search_questions
    \/ get_category_questions
    \/ get_quiz_questions

Spec == Init /\ [][Next]_vars

----------------------------------------------------------------------------
(* paginate_questions alone, over collections longer than a page *)

PageRow(i) ==
    [id |-> i, question |-> <<"Q">>, answer |-> <<"a">>,
     category |-> 1 + (i % 2), difficulty |-> 1]

\* collections of 0..MaxItems rows, listed by ascending and by descending id
PageCollections ==
    {[i \in 1..n |-> PageRow(i)] : n \in 0..MaxItems}
    \cup {[i \in 1..n |-> PageRow(n + 1 - i)] : n \in 0..MaxItems}

PageArgsSet ==
    {Object([page |-> p]) :
        p \in {Absent, PyStr(<<"x">>)} \cup {PyInt(k) : k \in (0 - MaxPage)..MaxPage}}

PageInit ==
    /\ selection \in PageCollections
    /\ questions = <<>>
    /\ nextId = 1
    /\ op = "init"
    /\ req = EmptyObject
    /\ status = 0
    /\ resp = EmptyObject
    /\ session_category = 0
    /\ session_previous = <<>>
    /\ session_draws = 0
    /\ session_pc = "idle"

paginate ==
    \E args \in PageArgsSet :
        /\ op' = "paginate"
        /\ req' = [args |-> args]
        /\ resp' = [questions |-> paginate_questions(args, selection)]
        /\ UNCHANGED <<selection, questions, nextId, status>>
        /\ SessionIdle

PageNext == paginate

PageSpec == PageInit /\ [][PageNext]_vars

----------------------------------------------------------------------------
(* A quiz session: the client keeps previous_questions and posts it to     *)
(* /quizzes again after every question, over a store nobody changes        *)

SessionRow(i, category) ==
    [id |-> i, question |-> <<"W", "h", "o">>, answer |-> <<"a">>,
     category |-> category, difficulty |-> 1]

SessionStores ==
    UNION {{[i \in 1..n |-> SessionRow(i, cats[i])] : cats \in [1..n -> CategoryIds]} :
            n \in 0..MaxSessionQuestions}

SessionInit ==
    /\ questions \in SessionStores
    /\ nextId = Len(questions) + 1
    /\ session_category \in {0} \cup CategoryIds
    /\ session_previous = <<>>
    /\ session_draws = 0
    /\ session_pc = "active"
    /\ op = "init"
    /\ req = EmptyObject
    /\ status = 0
    /\ resp = EmptyObject
    /\ selection = <<>>

\* one round of the session: post the session state, then record the answer
session_draw ==
    /\ session_pc = "active"
    /\ LET body == [quiz_category |-> PyDict([id |-> PyInt(session_category)]),
                    previous_questions |-> PyList(session_previous)]
       IN  \E out \in get_quiz_outcomes(questions, body) :
               /\ op' = "quiz"
               /\ req' = [body |-> body]
               /\ status' = out.status
               /\ resp' = out.resp
               /\ selection' = out.selection
               /\ IF out.status = 200 /\ out.resp.question.t = "dict"
                  THEN /\ session_previous' =
                              Append(session_previous, out.resp.question.v.id)
                       /\ session_draws' = session_draws + 1
                       /\ session_pc' = "active"
                  ELSE /\ session_pc' = "exhausted"
                       /\ UNCHANGED <<session_previous, session_draws>>
    /\ UNCHANGED <<questions, nextId, session_category>>

SessionNext == session_draw

\* every request of the session is answered, so the session keeps being served
SessionSpec == SessionInit /\ [][SessionNext]_vars /\ WF_vars(SessionNext)

----------------------------------------------------------------------------
(* Properties of POST /quizzes *)

Ids(qs) == {q.id : q \in Range(qs)}

\* the two fields of the last quiz request, None when not sent
SentCategory == Get(req.body, "quiz_category", PyNone)
SentPrevious == Get(req.body, "previous_questions", PyNone)
QuizServed == op = "quiz" /\ SentCategory.t # "none" /\ SentPrevious.t # "none"
QuizRefused == op = "quiz" /\ (SentCategory.t = "none" \/ SentPrevious.t = "none")

\* the stored questions the sent category admits: all of them for id 0
FilteredSet ==
    {q \in Range(questions) :
        SentCategory.v.id.v = 0 \/ q.category = SentCategory.v.id.v}

\* C1: a quiz request carrying both fields is answered with no question (None)
\* or with a question whose id is not in the previous_questions it sent.
C1_NeverPrevious ==
    QuizServed =>
        /\ status = 200
        /\ \/ resp.question.t = "none"
           \/ /\ resp.question.t = "dict"
              /\ resp.question.v.id \notin Range(SentPrevious.v)

\* a question was returned while another stored question was excluded
C1_Witness ==
    /\ QuizServed
    /\ resp.question.t = "dict"
    /\ \E q \in Range(questions) : q.id \in Range(SentPrevious.v)

\* C2: the quiz answers None exactly when previous_questions holds the id of
\* every stored question the category admits (every question for id 0).
C2_ExhaustedExactly ==
    QuizServed =>
        (resp.question.t = "none"
            <=> \A q \in FilteredSet : q.id \in Range(SentPrevious.v))

\* None for a category whose questions are all seen, an unseen question of
\* another category still in the store
C2_Witness ==
    /\ QuizServed
    /\ resp.question.t = "none"
    /\ SentCategory.v.id.v # 0
    /\ FilteredSet # {}
    /\ \E q \in Range(questions) : q.id \notin Range(SentPrevious.v)

\* C6 as claimed: a quiz request with quiz_category or previous_questions
\* absent or null ends in 400 Bad Request, and no question is selected.
C6_MissingIsBadRequest ==
    QuizRefused =>
        /\ status = 400
        /\ "question" \notin DOMAIN resp

\* C6 as amended: a quiz request with quiz_category or previous_questions
\* absent or null ends in 422 Unprocessable, and no question is selected.
C6_MissingIsUnprocessable ==
    QuizRefused =>
        /\ status = 422
        /\ resp = ErrorBody(422)
        /\ "question" \notin DOMAIN resp
        /\ selection = <<>>

\* refused with only one field missing, over a store that has a question
C6_Witness ==
    /\ QuizRefused
    /\ status = 422
    /\ questions # <<>>
    /\ SentCategory.t = "dict"
    /\ SentPrevious.t = "none"

----------------------------------------------------------------------------
(* Properties of filtering by category *)

\* C9: GET /categories/<id>/questions selects exactly the stored questions
\* whose category is the id, and the category branch of the quiz selects
\* exactly those of them whose id is not in previous_questions.
C9_CategoryFilter ==
    /\ (op = "category" /\ status = 200) =>
          /\ \A i \in DOMAIN selection :
                selection[i] \in Range(questions)
                /\ selection[i].category = req.category_id
          /\ \A q \in Range(questions) :
                q.category = req.category_id => q \in Range(selection)
          /\ Len(selection) = Cardinality(Range(selection))
          /\ resp.total_questions =
                Cardinality({q \in Range(questions) : q.category = req.category_id})
          /\ \A i \in DOMAIN resp.questions :
                resp.questions[i].category = req.category_id
                /\ \E q \in Range(questions) : resp.questions[i] = format(q)
    /\ (QuizServed /\ SentCategory.v.id.v # 0) =>
          /\ Range(selection) =
                {q \in Range(questions) :
                    q.category = SentCategory.v.id.v
                    /\ q.id \notin Range(SentPrevious.v)}
          /\ Len(selection) = Cardinality(Range(selection))

\* a category listing that keeps one stored question and drops another
C9_Witness ==
    /\ op = "category"
    /\ status = 200
    /\ Len(selection) = 1
    /\ Len(questions) = 2
    /\ resp.questions # <<>>

----------------------------------------------------------------------------
(* Properties of DELETE /questions/<id> and POST /questions *)

\* C5 as claimed: deleting an id the store does not hold ends in 404 Not
\* Found and leaves the store unchanged.
C5_DeleteMissingIsNotFound ==
    [][(op' = "delete" /\ req'.question_id \notin Ids(questions))
          => (status' = 404 /\ questions' = questions)]_vars

\* a field of a create body that is missing or ''
Unusable(body, key) ==
    key \notin DOMAIN body \/ (body[key].t = "str" /\ body[key].v = <<>>)

\* C8: a create request with question, answer, difficulty or category missing
\* or empty ends in 422 Unprocessable and the store is the same after it.
C8_CreateRejected ==
    [][(op' = "create" /\ \E key \in CreateKeys : Unusable(req'.body, key))
          => (status' = 422 /\ questions' = questions /\ nextId' = nextId)]_vars

\* a create with exactly one unusable field was refused over a non-empty store
C8_Witness ==
    /\ op = "create"
    /\ status = 422
    /\ questions # <<>>
    /\ Cardinality({key \in CreateKeys : Unusable(req.body, key)}) = 1

----------------------------------------------------------------------------
(* Properties of POST /questions/results *)

SentTerm == Get(req.body, "searchTerm", PyNone)

\* text holds word as a contiguous run of characters
Contains(text, word) ==
    \E i \in 0..(Len(text) - Len(word)) : SubSeq(text, i + 1, i + Len(word)) = word

\* C7 as claimed: a search with an empty or absent (None) term matches
\* nothing: no questions and total_questions = 0.
C7_EmptyTermMatchesNothing ==
    (op = "search" /\ (SentTerm.t = "none" \/ SentTerm = PyStr(<<>>))) =>
        /\ resp.questions = <<>>
        /\ resp.total_questions = 0

\* C7 as amended: a search with the empty term matches every stored question
\* (total_questions is the size of the store), and a search with an absent or
\* null term matches exactly the questions whose text contains "none" in any
\* letter case; the questions returned are the requested page of the matches.
C7_EmptyTermMatchesAll ==
    /\ (op = "search" /\ SentTerm.t = "str" /\ SentTerm.v = <<>>) =>
          /\ selection = questions
          /\ resp.total_questions = Len(questions)
    /\ (op = "search" /\ SentTerm.t = "none") =>
          /\ \A q \in Range(questions) :
                q \in Range(selection)
                    <=> Contains(Lower(q.question), <<"n", "o", "n", "e">>)
          /\ Range(selection) \subseteq Range(questions)
          /\ resp.total_questions = Len(selection)
    /\ op = "search" =>
          /\ status = 200
          /\ resp.questions = paginate_questions(req.args, selection)

\* a search without a term matched one of the two stored questions
C7_Witness ==
    /\ op = "search"
    /\ SentTerm.t = "none"
    /\ Len(questions) = 2
    /\ resp.total_questions = 1
    /\ Len(resp.questions) = 1

----------------------------------------------------------------------------
(* Properties of paginate_questions *)

\* the page number the last paginate call was given, when it was a number
PageGiven == "page" \in DOMAIN req.args /\ req.args.page.t = "int"

\* pages 1..k of a collection, one after the other
RECURSIVE FirstPages(_, _)
FirstPages(sel, k) ==
    IF k = 0 THEN <<>>
    ELSE FirstPages(sel, k - 1) \o paginate_questions([page |-> PyInt(k)], sel)

\* C3: page k >= 1 is the items at offsets (k-1)*10 .. k*10-1 in their order,
\* min(10, items left after the offset) of them, and the pages 1, 2, ... put
\* together are the whole collection, nothing lost, repeated or moved.
C3_PageWindow ==
    (op = "paginate" /\ PageGiven /\ req.args.page.v >= 1) =>
        LET k      == req.args.page.v
            n      == Len(selection)
            offset == (k - 1) * 10
            m      == Min(10, Max(0, n - offset))
            pages  == (n \div 10) + 1
        IN  /\ Len(resp.questions) = m
            /\ \A j \in 1..m : resp.questions[j] = format(selection[offset + j])
            /\ FirstPages(selection, pages) = [i \in 1..n |-> format(selection[i])]
            /\ paginate_questions([page |-> PyInt(pages + 1)], selection) = <<>>

\* page 2 of 15 items is the 5 items at offsets 10..14
C3_Witness ==
    /\ op = "paginate"
    /\ PageGiven
    /\ req.args.page.v = 2
    /\ Len(selection) = 15
    /\ Len(resp.questions) = 5
    /\ resp.questions[1].id = selection[11].id

\* C4: for a page number of zero or below, paginate_questions returns an
\* empty sequence.
C4_InvalidPageIsEmpty ==
    (op = "paginate" /\ PageGiven /\ req.args.page.v <= 0) => resp.questions = <<>>

----------------------------------------------------------------------------
(* Properties of a quiz session *)

\* the stored questions the session's category admits
SessionFiltered ==
    {q \in Range(questions) : session_category = 0 \/ q.category = session_category}

SessionSafe ==
    /\ session_draws = Len(session_previous)
    /\ \A i, j \in DOMAIN session_previous :
          i # j => session_previous[i] # session_previous[j]
    /\ Range(session_previous) \subseteq {q.id : q \in SessionFiltered}
    /\ session_draws <= Cardinality(SessionFiltered)
    /\ session_pc = "exhausted" => session_draws = Cardinality(SessionFiltered)

\* C10: in a session no question is drawn twice, every question drawn is one
\* the category admits, the exhaustion signal comes after exactly N draws (N
\* the number of stored questions the category admits), and it does come.
C10_SessionExhausts == []SessionSafe /\ <>(session_pc = "exhausted")

\* exhausted after two draws from a category holding two of three questions
C10_Witness ==
    /\ session_pc = "exhausted"
    /\ session_draws = 2
    /\ Len(questions) = 3
    /\ session_category # 0

====
